---- MODULE Spec2Model ----
(***************************************************************************)
(* Model of pyams_elastic.client.ElasticClient: the client's configuration,*)
(* the search engine behind self.es (one index, its mapping, its           *)
(* documents), the operations deferred by @transactional until the unit of *)
(* work commits, and one action per client method.                         *)
(*                                                                         *)
(* Every action records in `issued` the engine calls it made, in order and *)
(* with the engine's answer, in `raised` the exception that left the       *)
(* method (or the commit), in `result` the value returned and in `last`    *)
(* the method called with its arguments.                                   *)
(***************************************************************************)
EXTENDS Naturals, Sequences, FiniteSets, TLC

\* ------------------------------------------------------------- bounds
MaxQueue == 2      \* operations one unit of work may defer
MaxObjects == 2    \* objects handed to one index_objects call
MaxClasses == 3    \* classes a declarative registry yields

\* ------------------------------------------------------------- values
DocIds == {"doc1", "doc2"}
Absent == "absent"
NoPipeline == "none"
NoError == "none"
NotFoundError == "NotFoundError"
ConnectionError == "ConnectionError"
None == "None"

\* A raw document source: its fields (one title) and the optional
\* '__pipeline__' marker key.
Docs ==
    {[title |-> "a", pipeline |-> NoPipeline],
     [title |-> "b", pipeline |-> NoPipeline],
     [title |-> "b", pipeline |-> "ingest"]}
\* An indexable object: obj.elastic_document() is its document plus "_id".
Objects ==
    {[_id |-> "doc1", title |-> "a", pipeline |-> NoPipeline],
     [_id |-> "doc1", title |-> "b", pipeline |-> "ingest"],
     [_id |-> "doc2", title |-> "b", pipeline |-> NoPipeline]}

\* A mapping document: field name -> field type descriptor.
EmptyMapping == [f \in {} |-> ""]
\* dict.update: keys of b override keys of a.
update(a, b) ==
    [k \in (DOMAIN a) \cup (DOMAIN b) |-> IF k \in DOMAIN b THEN b[k] ELSE a[k]]

VARIABLES
    disable_indexing,  \* self.disable_indexing
    use_transaction,   \* self.use_transaction (TransactionClient)
    es,                \* the engine behind self.es: [exists, mappings, docs]
    queue,             \* operations deferred in the active unit of work
    issued,            \* engine calls made by the last operation, in order
    raised,            \* exception raised by the last operation
    result,            \* value returned by the last operation
    last               \* the last operation and its arguments

vars == <<disable_indexing, use_transaction, es, queue, issued, raised, result, last>>

NoDocs == [i \in DocIds |-> Absent]

\* What one method body (or one commit) did: the engine afterwards, the
\* calls made, the exception that left it and the value returned.
Outcome(eng, calls, err, val) ==
    [es |-> eng, issued |-> calls, raised |-> err, result |-> val]

\* ------------------------------------------------------ engine calls
\* self.es.index(index=, document=, id=[, pipeline=]): stores the document
\* under id (creating the index on first write); a transport fault raises.
es_index(eng, id, title, pipeline, fault) ==
    LET call == [call |-> "index", id |-> id, document |-> title, pipeline |-> pipeline]
    IN  IF fault
        THEN Outcome(eng, <<[call |-> call, outcome |-> ConnectionError]>>,
                     ConnectionError, None)
        ELSE Outcome([eng EXCEPT !.exists = TRUE, !.docs[id] = title],
                     <<[call |-> call, outcome |-> NoError]>>, NoError, None)

\* self.es.delete(index=, id=): NotFoundError when the document (or the
\* index) is absent.
es_delete(eng, id, fault) ==
    LET call == [call |-> "delete", id |-> id]
    IN  IF fault
        THEN Outcome(eng, <<[call |-> call, outcome |-> ConnectionError]>>,
                     ConnectionError, None)
        ELSE IF eng.docs[id] = Absent
        THEN Outcome(eng, <<[call |-> call, outcome |-> NotFoundError]>>,
                     NotFoundError, None)
        ELSE Outcome([eng EXCEPT !.docs[id] = Absent],
                     <<[call |-> call, outcome |-> NoError]>>, NoError, None)

\* self.es.get(index=, id=): the stored source, NotFoundError when absent.
es_get(eng, id) ==
    LET call == [call |-> "get", id |-> id]
    IN  IF eng.docs[id] = Absent
        THEN Outcome(eng, <<[call |-> call, outcome |-> NotFoundError]>>,
                     NotFoundError, None)
        ELSE Outcome(eng, <<[call |-> call, outcome |-> NoError]>>,
                     NoError, eng.docs[id])

\* self.es.indices.flush(index=, force=) and self.es.indices.refresh(index=):
\* advisory, NotFoundError when the index is absent.
es_indices_advisory(eng, call) ==
    IF eng.exists
    THEN Outcome(eng, <<[call |-> call, outcome |-> NoError]>>, NoError, None)
    ELSE Outcome(eng, <<[call |-> call, outcome |-> NotFoundError]>>, NotFoundError, None)

\* self.es.indices.exists(index=)
es_indices_exists(eng) ==
    Outcome(eng, <<[call |-> [call |-> "indices.exists"], outcome |-> NoError]>>,
            NoError, eng.exists)

\* self.es.indices.delete(index=): drops the index with its mapping and its
\* documents; NotFoundError when the index is absent.
es_indices_delete(eng) ==
    LET call == [call |-> "indices.delete"]
    IN  IF eng.exists
        THEN Outcome([exists |-> FALSE, mappings |-> EmptyMapping, docs |-> NoDocs],
                     <<[call |-> call, outcome |-> NoError]>>, NoError, None)
        ELSE Outcome(eng, <<[call |-> call, outcome |-> NotFoundError]>>,
                     NotFoundError, None)

\* self.es.indices.create(index=, body=dict(settings=)): an empty index.
es_indices_create(eng, settings) ==
    Outcome([exists |-> TRUE, mappings |-> EmptyMapping, docs |-> NoDocs],
            <<[call |-> [call |-> "indices.create", settings |-> settings],
               outcome |-> NoError]>>, NoError, None)

\* self.es.indices.get_mapping(index=)[index]['mappings']
es_indices_get_mapping(eng) ==
    LET call == [call |-> "indices.get_mapping"]
    IN  IF eng.exists
        THEN Outcome(eng, <<[call |-> call, outcome |-> NoError]>>, NoError, eng.mappings)
        ELSE Outcome(eng, <<[call |-> call, outcome |-> NotFoundError]>>,
                     NotFoundError, None)

\* self.es.indices.put_mapping(index=, body=): the engine merges the body
\* into the index's mapping.
es_indices_put_mapping(eng, body) ==
    Outcome([eng EXCEPT !.mappings = update(eng.mappings, body)],
            <<[call |-> [call |-> "indices.put_mapping", body |-> body],
               outcome |-> NoError]>>, NoError, None)

\* One engine call after another: the second is made when the first raised
\* nothing.
Then(r1, r2) ==
    IF r1.raised # NoError
    THEN r1
    ELSE Outcome(r2.es, r1.issued \o r2.issued, r2.raised, r2.result)

\* --------------------------------------------------- method bodies
\* index_document with the disable_indexing test inverted.
index_document_body_inverted(eng, id, doc, fault) ==
    IF ~disable_indexing
    THEN Outcome(eng, <<>>, NoError, None)
    ELSE es_index(eng, id, doc.title, doc.pipeline, fault)

\* The body of index_document(id, doc).
index_document_body(eng, id, doc, fault) ==
    IF disable_indexing
    THEN Outcome(eng, <<>>, NoError, None)
    ELSE es_index(eng, id, doc.title, doc.pipeline, fault)

\* delete_document without the disable_indexing test.
delete_document_body_unguarded(eng, id, safe, fault) ==
    LET r == es_delete(eng, id, fault)
    IN  IF r.raised = NotFoundError /\ safe
        THEN [r EXCEPT !.raised = NoError]
        ELSE r

\* delete_document swallowing NotFoundError whatever safe is.
delete_document_body_always_safe(eng, id, safe, fault) ==
    IF disable_indexing
    THEN Outcome(eng, <<>>, NoError, None)
    ELSE LET r == es_delete(eng, id, fault)
         IN  IF r.raised = NotFoundError
             THEN [r EXCEPT !.raised = NoError]
             ELSE r

\* delete_document swallowing every engine error when safe.
delete_document_body_except_all(eng, id, safe, fault) ==
    IF disable_indexing
    THEN Outcome(eng, <<>>, NoError, None)
    ELSE LET r == es_delete(eng, id, fault)
         IN  IF r.raised # NoError /\ safe
             THEN [r EXCEPT !.raised = NoError]
             ELSE r

\* The body of delete_document(id, safe).
delete_document_body(eng, id, safe, fault) ==
    IF disable_indexing
    THEN Outcome(eng, <<>>, NoError, None)
    ELSE LET r == es_delete(eng, id, fault)
         IN  IF r.raised = NotFoundError /\ safe
             THEN [r EXCEPT !.raised = NoError]
             ELSE r

\* --------------------------------------------- index and mapping bodies
Returns(r, val) == [r EXCEPT !.result = val]

CREATE_INDEX_SETTINGS == "CREATE_INDEX_SETTINGS"
Settings == {None, "custom"}

\* ensure_index creating the index whether or not it exists.
ensure_index_body_always(eng, recreate, settings) ==
    LET e == es_indices_exists(eng)
        d == IF e.result THEN Then(e, es_indices_delete(e.es)) ELSE e
        body == IF settings = None THEN CREATE_INDEX_SETTINGS ELSE settings
    IN  Returns(Then(d, es_indices_create(d.es, body)), None)

\* ensure_index(recreate=False, settings=None)
ensure_index_body(eng, recreate, settings) ==
    LET e == es_indices_exists(eng)
    IN  IF recreate \/ ~e.result
        THEN LET d == IF e.result THEN Then(e, es_indices_delete(e.es)) ELSE e
                 body == IF settings = None THEN CREATE_INDEX_SETTINGS ELSE settings
             IN  Returns(Then(d, es_indices_create(d.es, body)), None)
        ELSE Returns(e, None)

\* delete_index()
delete_index_body(eng) == es_indices_delete(eng)

\* get_mappings()
get_mappings(eng) == es_indices_get_mapping(eng)

\* The indexable classes of the model: what IElasticMapping.providedBy(cls)
\* answers, cls.elastic_mapping(), and the elastic_mapping() of each
\* IElasticMappingExtension adapter of cls, in getAdapters order.
ClassNames == {"A", "B", "C", "D", "E"}
ClassOf(name) ==
    CASE name = "A" -> [provides |-> TRUE,
                        own |-> ("status" :> "A.status"),
                        exts |-> <<>>]
      [] name = "B" -> [provides |-> TRUE,
                        own |-> ("title" :> "B.title"),
                        exts |-> <<("status" :> "B.ext0.status"),
                                   ("status" :> "B.ext.status")>>]
      [] name = "C" -> [provides |-> FALSE,
                        own |-> ("status" :> "C.status"),
                        exts |-> <<>>]
      [] name = "D" -> [provides |-> TRUE,
                        own |-> EmptyMapping,
                        exts |-> <<("status" :> "D.ext.status")>>]
      [] name = "E" -> [provides |-> TRUE,
                        own |-> ("status" :> "E.status"),
                        exts |-> <<>>]

\* ensure_mapping putting the mapping whatever the index holds.
ensure_mapping_body_overwrite(eng, cls, recreate) ==
    LET doc_mapping == ClassOf(cls).own
        g == get_mappings(eng)
    IN  IF g.raised # NoError
        THEN g
        ELSE Returns(Then(g, es_indices_put_mapping(g.es, doc_mapping)), None)

\* ensure_mapping(cls, recreate=False)
ensure_mapping_body(eng, cls, recreate) ==
    LET doc_mapping == ClassOf(cls).own
        g == get_mappings(eng)
    IN  IF g.raised # NoError
        THEN g
        ELSE IF (DOMAIN g.result = {}) \/ recreate
        THEN Returns(Then(g, es_indices_put_mapping(g.es, doc_mapping)), None)
        ELSE Returns(g, None)

\* for _name, extension in getAdapters(...): cls_mapping.update(...)
RECURSIVE apply_extensions(_, _)
apply_extensions(cls_mapping, exts) ==
    IF exts = <<>>
    THEN cls_mapping
    ELSE apply_extensions(update(cls_mapping, Head(exts)), Tail(exts))

\* One turn of the loop with the class's keys kept behind those merged so far.
merge_class_keep_first(doc_mapping, cls) ==
    LET c == ClassOf(cls)
    IN  IF ~c.provides
        THEN doc_mapping
        ELSE IF DOMAIN c.own = {}
        THEN doc_mapping
        ELSE update(apply_extensions(c.own, c.exts), doc_mapping)

\* One turn of the loop over base_class._decl_class_registry.values().
merge_class(doc_mapping, cls) ==
    LET c == ClassOf(cls)
    IN  IF ~c.provides
        THEN doc_mapping
        ELSE IF DOMAIN c.own = {}
        THEN doc_mapping
        ELSE update(doc_mapping, apply_extensions(c.own, c.exts))

RECURSIVE merge_registry(_, _)
merge_registry(doc_mapping, registry) ==
    IF registry = <<>>
    THEN doc_mapping
    ELSE merge_registry(merge_class(doc_mapping, Head(registry)), Tail(registry))

\* ensure_all_mappings(base_class, recreate=False)
ensure_all_mappings_body(eng, registry, recreate) ==
    LET g == get_mappings(eng)
    IN  IF g.raised # NoError
        THEN g
        ELSE IF (DOMAIN g.result = {}) \/ recreate
        THEN Returns(Then(g, es_indices_put_mapping(g.es,
                                 merge_registry(EmptyMapping, registry))), None)
        ELSE Returns(g, None)

\* ------------------------------------------- deferral (@transactional)
IndexOp(id, doc) == [kind |-> "index", id |-> id, doc |-> doc]
DeleteOp(id, safe) == [kind |-> "delete", id |-> id, safe |-> safe]

\* Running the decorated function of a registered operation.
call_body(eng, op, fault) ==
    IF op.kind = "index"
    THEN index_document_body(eng, op.id, op.doc, fault)
    ELSE delete_document_body(eng, op.id, op.safe, fault)

\* What a call of a @transactional method does to (engine, queue): in
\* transactional mode the call is registered with the active unit of work
\* and nothing reaches the engine; otherwise the body runs at once.
transactional(st, op, fault) ==
    IF use_transaction
    THEN [es |-> st.es, queue |-> Append(st.queue, op),
          issued |-> <<>>, raised |-> NoError, result |-> None]
    ELSE LET r == call_body(st.es, op, fault)
         IN  [es |-> r.es, queue |-> st.queue,
              issued |-> r.issued, raised |-> r.raised, result |-> r.result]

\* index_object(obj): doc = obj.elastic_document(); doc_id = doc.pop("_id");
\* index_document(id=doc_id, doc=doc)
index_object_call(st, obj, fault) ==
    transactional(st, IndexOp(obj._id, [title |-> obj.title, pipeline |-> obj.pipeline]),
                  fault)

\* delete_object(obj, safe): delete_document(id=doc_id, safe=safe)
delete_object_call(st, obj, safe, fault) ==
    transactional(st, DeleteOp(obj._id, safe), fault)

\* index_objects(objects): for obj in objects: self.index_object(obj); the
\* k-th call meets a transport fault when k = failAt.
RECURSIVE index_objects_loop(_, _, _, _)
index_objects_loop(st, objects, k, failAt) ==
    IF objects = <<>>
    THEN [es |-> st.es, queue |-> st.queue,
          issued |-> <<>>, raised |-> NoError, result |-> None]
    ELSE LET r == index_object_call(st, Head(objects), k = failAt)
         IN  IF r.raised # NoError
             THEN r
             ELSE LET rest == index_objects_loop([es |-> r.es, queue |-> r.queue],
                                                 Tail(objects), k + 1, failAt)
                  IN  [rest EXCEPT !.issued = r.issued \o rest.issued]

\* The commit of the unit of work: the registered operations run in
\* registration order, the k-th one meeting a transport fault when
\* k = failAt; the first exception stops the run and is the commit's failure.
RECURSIVE apply_queue(_, _, _, _)
apply_queue(eng, ops, k, failAt) ==
    IF ops = <<>>
    THEN Outcome(eng, <<>>, NoError, None)
    ELSE LET r == call_body(eng, Head(ops), k = failAt)
         IN  IF r.raised # NoError
             THEN r
             ELSE LET rest == apply_queue(r.es, Tail(ops), k + 1, failAt)
                  IN  Outcome(rest.es, r.issued \o rest.issued, rest.raised, None)

\* ------------------------------------------------------------ state
Init ==
    /\ disable_indexing \in BOOLEAN
    /\ use_transaction \in BOOLEAN
    /\ es = [exists |-> FALSE, mappings |-> EmptyMapping, docs |-> NoDocs]
    /\ queue = <<>>
    /\ issued = <<>>
    /\ raised = NoError
    /\ result = None
    /\ last = [op |-> "__init__"]

\* The state after a method that went through @transactional.
Deferred(r, call) ==
    /\ es' = r.es
    /\ queue' = r.queue
    /\ issued' = r.issued
    /\ raised' = r.raised
    /\ result' = r.result
    /\ last' = call
    /\ UNCHANGED <<disable_indexing, use_transaction>>

\* The state after a method that talks to the engine directly.
Immediate(r, call) ==
    /\ es' = r.es
    /\ issued' = r.issued
    /\ raised' = r.raised
    /\ result' = r.result
    /\ last' = call
    /\ UNCHANGED <<disable_indexing, use_transaction, queue>>

Room(n) == use_transaction => Len(queue) + n <= MaxQueue

\* The transport faults a call may meet: none while the call is only
\* registered, since the engine is not reached.
Faults == IF use_transaction THEN {FALSE} ELSE BOOLEAN
FailAts(n) == IF use_transaction THEN {0} ELSE 0..n

\* index_document without the @transactional decorator.
index_document_undecorated ==
    \E id \in DocIds, doc \in Docs, fault \in Faults :
        /\ Room(1)
        /\ Immediate(index_document_body(es, id, doc, fault),
                     [op |-> "index_document", id |-> id, doc |-> doc, fault |-> fault])

\* @transactional index_document(id, doc)
index_document ==
    \E id \in DocIds, doc \in Docs, fault \in Faults :
        /\ Room(1)
        /\ Deferred(transactional([es |-> es, queue |-> queue], IndexOp(id, doc), fault),
                    [op |-> "index_document", id |-> id, doc |-> doc, fault |-> fault])

\* delete_document registered with the unit of work whatever the mode.
delete_document_always_deferred ==
    \E id \in DocIds, safe \in BOOLEAN :
        /\ Len(queue) < MaxQueue
        /\ Deferred([es |-> es, queue |-> Append(queue, DeleteOp(id, safe)),
                     issued |-> <<>>, raised |-> NoError, result |-> None],
                    [op |-> "delete_document", id |-> id, safe |-> safe, fault |-> FALSE])

\* @transactional delete_document(id, safe=False)
delete_document ==
    \E id \in DocIds, safe \in BOOLEAN, fault \in Faults :
        /\ Room(1)
        /\ Deferred(transactional([es |-> es, queue |-> queue], DeleteOp(id, safe), fault),
                    [op |-> "delete_document", id |-> id, safe |-> safe, fault |-> fault])

\* index_object(obj)
index_object ==
    \E obj \in Objects, fault \in Faults :
        /\ Room(1)
        /\ Deferred(index_object_call([es |-> es, queue |-> queue], obj, fault),
                    [op |-> "index_object", obj |-> obj, fault |-> fault])

\* Sequences of at most n elements of S.
SeqUpTo(S, n) == UNION {[1..m -> S] : m \in 0..n}

\* index_objects(objects)
index_objects ==
    \E objects \in SeqUpTo(Objects, MaxObjects) :
        \E failAt \in FailAts(Len(objects)) :
            /\ Room(Len(objects))
            /\ Deferred(index_objects_loop([es |-> es, queue |-> queue], objects, 1, failAt),
                        [op |-> "index_objects", objects |-> objects, failAt |-> failAt])

\* delete_object(obj, safe=False)
delete_object ==
    \E obj \in Objects, safe \in BOOLEAN, fault \in Faults :
        /\ Room(1)
        /\ Deferred(delete_object_call([es |-> es, queue |-> queue], obj, safe, fault),
                    [op |-> "delete_object", obj |-> obj, safe |-> safe, fault |-> fault])

\* flush(force=True)
flush ==
    \E force \in BOOLEAN :
        Immediate(es_indices_advisory(es, [call |-> "indices.flush", force |-> force]),
                  [op |-> "flush", force |-> force])

\* get registering the read with the unit of work.
get_deferred ==
    \E id \in DocIds :
        /\ Room(1)
        /\ Deferred(transactional([es |-> es, queue |-> queue], DeleteOp(id, TRUE), FALSE),
                    [op |-> "get", id |-> id])

\* get(obj): obj is a (document type, id) pair or has an id.
get ==
    \E id \in DocIds :
        Immediate(es_get(es, id), [op |-> "get", id |-> id])

\* refresh()
refresh ==
    Immediate(es_indices_advisory(es, [call |-> "indices.refresh"]),
              [op |-> "refresh"])

\* ensure_index(recreate=False, settings=None)
ensure_index ==
    \E recreate \in BOOLEAN, settings \in Settings :
        Immediate(ensure_index_body(es, recreate, settings),
                  [op |-> "ensure_index", recreate |-> recreate, settings |-> settings])

\* delete_index()
delete_index ==
    Immediate(delete_index_body(es), [op |-> "delete_index"])

\* ensure_mapping(cls, recreate=False)
ensure_mapping ==
    \E cls \in ClassNames, recreate \in BOOLEAN :
        Immediate(ensure_mapping_body(es, cls, recreate),
                  [op |-> "ensure_mapping", cls |-> cls, recreate |-> recreate])

\* The orders in which a registry of at most MaxClasses classes yields them.
Registries ==
    {r \in SeqUpTo(ClassNames, MaxClasses) :
        \A i, j \in 1..Len(r) : i # j => r[i] # r[j]}

\* ensure_all_mappings(base_class, recreate=False)
ensure_all_mappings ==
    \E registry \in Registries, recreate \in BOOLEAN :
        Immediate(ensure_all_mappings_body(es, registry, recreate),
                  [op |-> "ensure_all_mappings", registry |-> registry,
                   recreate |-> recreate])


\* The unit of work commits: the data manager applies the queue.
commit ==
    \E failAt \in 0..MaxQueue :
        /\ failAt <= Len(queue)
        /\ LET r == apply_queue(es, queue, 1, failAt)
           IN  /\ es' = r.es
               /\ issued' = r.issued
               /\ raised' = r.raised
               /\ result' = None
        /\ queue' = <<>>
        /\ last' = [op |-> "commit", queue |-> queue, failAt |-> failAt]
        /\ UNCHANGED <<disable_indexing, use_transaction>>

\* The unit of work aborts: the registered operations are discarded.
abort ==
    /\ queue' = <<>>
    /\ issued' = <<>>
    /\ raised' = NoError
    /\ result' = None
    /\ last' = [op |-> "abort", queue |-> queue]
    /\ UNCHANGED <<disable_indexing, use_transaction, es>>

Next ==
    \/ index_document
    \/ delete_document
    \/ index_object
    \/ index_objects
    \/ delete_object
    \/ get
    \/ flush
    \/ refresh
    \/ ensure_index
    \/ delete_index
    \/ commit
    \/ abort

\* The document operations and the units of work around them.
Spec == Init /\ [][Next]_vars

\* The index and mapping lifecycle of a client that writes no document.
InitIndex == Init /\ ~use_transaction

NextIndex ==
    \/ ensure_index
    \/ delete_index
    \/ ensure_mapping
    \/ ensure_all_mappings

SpecIndex == InitIndex /\ [][NextIndex]_vars

\* ----------------------------------------------------------- claims
\* The engine call a registered operation stands for.
CallOf(op) ==
    IF op.kind = "index"
    THEN [call |-> "index", id |-> op.id, document |-> op.doc.title,
          pipeline |-> op.doc.pipeline]
    ELSE [call |-> "delete", id |-> op.id]

IsDocumentCall(c) == c.call.call \in {"index", "delete"}
Registrations == {"index_document", "delete_document", "index_object", "delete_object",
                  "index_objects"}

\* The operation(s) a registering method stands for, from its arguments.
OpsOf(l) ==
    CASE l.op = "index_document" -> <<IndexOp(l.id, l.doc)>>
      [] l.op = "delete_document" -> <<DeleteOp(l.id, l.safe)>>
      [] l.op = "index_object" ->
            <<IndexOp(l.obj._id, [title |-> l.obj.title, pipeline |-> l.obj.pipeline])>>
      [] l.op = "delete_object" -> <<DeleteOp(l.obj._id, l.safe)>>
      [] l.op = "index_objects" ->
            [i \in 1..Len(l.objects) |->
                IndexOp(l.objects[i]._id, [title |-> l.objects[i].title,
                                           pipeline |-> l.objects[i].pipeline])]

\* The documents an engine holds after it has carried out ops one by one.
RECURSIVE Replay(_, _)
Replay(docs, ops) ==
    IF ops = <<>>
    THEN docs
    ELSE Replay([docs EXCEPT ![Head(ops).id] =
                    IF Head(ops).kind = "index" THEN Head(ops).doc.title ELSE Absent],
                Tail(ops))

\* The calls a successful commit must make for a queue, and nothing else.
AppliedOnceInOrder ==
    /\ Len(issued) = Len(last.queue)
    /\ \A i \in 1..Len(issued) : issued[i].call = CallOf(last.queue[i])

\* The scenario of the specification: index doc1, delete doc1, commit.
Doc1IndexThenDelete ==
    /\ Len(last.queue) = 2
    /\ last.queue[1].kind = "index" /\ last.queue[1].id = "doc1"
    /\ last.queue[2].kind = "delete" /\ last.queue[2].id = "doc1"

\* C1 as stated: in transactional mode a commit that succeeds has issued
\* one engine call per registered operation, in registration order, and
\* index doc1 / delete doc1 / commit leaves doc1 absent after one index
\* call and one delete call.
C1_Original ==
    (use_transaction /\ last.op = "commit" /\ raised = NoError)
        => /\ AppliedOnceInOrder
           /\ Doc1IndexThenDelete => es.docs["doc1"] = Absent

\* C1 amended: the same for a client whose disable_indexing is false; and
\* every registering call appends exactly its operation(s) at the end of
\* the queue the commit will read.
C1_CommitAppliesQueueInOrder ==
    /\ (use_transaction /\ ~disable_indexing /\ last.op = "commit" /\ raised = NoError)
          => /\ AppliedOnceInOrder
             /\ Doc1IndexThenDelete => es.docs["doc1"] = Absent
    /\ (use_transaction /\ last.op \in Registrations /\ raised = NoError)
          => /\ Len(queue) >= Len(OpsOf(last))
             /\ SubSeq(queue, Len(queue) - Len(OpsOf(last)) + 1, Len(queue)) = OpsOf(last)

C1_Witness ==
    /\ use_transaction /\ ~disable_indexing
    /\ last.op = "commit" /\ raised = NoError
    /\ Doc1IndexThenDelete
    /\ Len(issued) = 2
    /\ issued[1].call.call = "index" /\ issued[2].call.call = "delete"
    /\ es.docs["doc1"] = Absent

\* C2: in transactional mode a registering call issues no engine call and
\* leaves the engine alone, an abort issues no engine call, leaves the
\* engine alone and empties the queue, and a commit issues calls only for
\* the operations then in the queue: the operations of an aborted unit of
\* work never reach the engine.
C2_AbortNeverReachesEngine ==
    [][use_transaction =>
          /\ last'.op \in Registrations => (issued' = <<>> /\ es' = es)
          /\ last'.op = "abort" => (issued' = <<>> /\ es' = es /\ queue' = <<>>)
          /\ last'.op = "commit" =>
                /\ Len(issued') <= Len(queue)
                /\ \A i \in 1..Len(issued') : issued'[i].call = CallOf(queue[i])]_vars

C2_Witness ==
    /\ use_transaction /\ ~disable_indexing
    /\ last.op = "abort"
    /\ Len(last.queue) = 2
    /\ last.queue[1].kind = "index" /\ last.queue[1].id = "doc1"
    /\ last.queue[2].kind = "delete" /\ last.queue[2].id = "doc1"
    /\ es.docs["doc1"] = Absent
    /\ issued = <<>> /\ queue = <<>>

\* C3: with disable_indexing true no operation, commit or abort ever
\* issues an index or a delete call to the engine, and no document is
\* ever stored.
C3_DisabledIndexingIssuesNothing ==
    disable_indexing =>
        /\ \A i \in 1..Len(issued) : ~IsDocumentCall(issued[i])
        /\ es.docs = NoDocs

C3_Witness ==
    /\ disable_indexing /\ use_transaction
    /\ last.op = "commit"
    /\ Len(last.queue) = 2
    /\ last.queue[1].kind = "index" /\ last.queue[2].kind = "delete"
    /\ issued = <<>>

\* C4 as stated: in non-transactional mode every index_document and
\* delete_document call issues its one engine call before it returns,
\* nothing is ever queued, and a commit or an abort issues no call and
\* leaves the engine as it is.
C4_Original ==
    [][~use_transaction =>
          /\ last'.op \in {"index_document", "delete_document"} =>
                /\ Len(issued') = 1
                /\ issued'[1].call = CallOf(OpsOf(last')[1])
          /\ queue' = <<>>
          /\ last'.op \in {"commit", "abort"} => (issued' = <<>> /\ es' = es)]_vars

\* C4 amended: the engine call is issued provided disable_indexing is
\* false (with disable_indexing true the call returns without any).
C4_ImmediateWhenNotTransactional ==
    [][~use_transaction =>
          /\ (~disable_indexing /\ last'.op \in {"index_document", "delete_document"}) =>
                /\ Len(issued') = 1
                /\ issued'[1].call = CallOf(OpsOf(last')[1])
          /\ queue' = <<>>
          /\ last'.op \in {"commit", "abort"} => (issued' = <<>> /\ es' = es)]_vars

C4_Witness ==
    /\ ~use_transaction /\ ~disable_indexing
    /\ last.op = "index_document" /\ last.id = "doc1" /\ ~last.fault
    /\ Len(issued) = 1 /\ issued[1].call.call = "index"
    /\ es.docs["doc1"] = last.doc.title
    /\ queue = <<>>

IsDelete(l) == l.op \in {"delete_document", "delete_object"}
IdOf(l) == IF l.op = "delete_document" THEN l.id ELSE l.obj._id

\* C5 as stated: delete_document(id, safe) of an id absent from the
\* engine (and no transport fault) raises nothing and leaves the engine
\* unchanged when safe, and raises NotFoundError when not safe.
C5_Original ==
    [][(last'.op = "delete_document" /\ es.docs[last'.id] = Absent /\ ~last'.fault) =>
          IF last'.safe
          THEN raised' = NoError /\ es' = es
          ELSE raised' = NotFoundError]_vars

\* What the exception policy of delete_document makes of the engine's
\* answer to the delete call of operation op.
Policy(op, outcome) ==
    IF outcome = NotFoundError /\ op.kind = "delete" /\ op.safe THEN NoError ELSE outcome

\* C5 amended: when the call reaches the engine, i.e. disable_indexing is
\* false and the mode is non-transactional, a delete of an absent id
\* raises nothing and leaves the engine unchanged when safe and raises
\* NotFoundError when not safe, and a transport error propagates whatever
\* safe is; in transactional mode the same policy is applied when the
\* commit runs the deferred call: every answer but the last is a success
\* or the NotFoundError of a safe delete, and the commit raises what the
\* policy makes of the last answer.
C5_SafeDeletePolicy ==
    [][~disable_indexing =>
          /\ (IsDelete(last') /\ ~use_transaction) =>
                IF last'.fault
                THEN raised' = ConnectionError /\ es' = es
                ELSE IF es.docs[IdOf(last')] = Absent
                THEN /\ es' = es
                     /\ raised' = IF last'.safe THEN NoError ELSE NotFoundError
                ELSE /\ raised' = NoError
                     /\ es' = [es EXCEPT !.docs[IdOf(last')] = Absent]
          /\ (IsDelete(last') /\ use_transaction) => (raised' = NoError /\ es' = es)
          /\ last'.op = "commit" =>
                /\ \A i \in 1..Len(issued') :
                      IF i < Len(issued')
                      THEN Policy(queue[i], issued'[i].outcome) = NoError
                      ELSE raised' = Policy(queue[i], issued'[i].outcome)
                /\ Len(issued') = 0 => raised' = NoError]_vars

C5_Witness ==
    /\ ~use_transaction /\ ~disable_indexing
    /\ last.op = "delete_document" /\ last.safe /\ ~last.fault
    /\ Len(issued) = 1 /\ issued[1].outcome = NotFoundError
    /\ raised = NoError

\* C9: when the commit of a client with indexing enabled reaches a
\* registered operation that fails (a delete with safe false of an id
\* absent once the operations before it have been carried out, or the
\* operation a transport fault hits), the commit raises that failure, has
\* issued exactly the calls up to the failing one, and the engine holds
\* the effect of the operations before it.
FailsAt(docs, ops, k, failAt) ==
    \/ k = failAt
    \/ /\ ops[k].kind = "delete"
       /\ ~ops[k].safe
       /\ Replay(docs, SubSeq(ops, 1, k - 1))[ops[k].id] = Absent

C9_CommitFailureLeavesPrefix ==
    [][(last'.op = "commit" /\ ~disable_indexing) =>
          \A k \in 1..Len(queue) :
              (/\ FailsAt(es.docs, queue, k, last'.failAt)
               /\ \A j \in 1..(k - 1) : ~FailsAt(es.docs, queue, j, last'.failAt))
              => /\ raised' = IF k = last'.failAt THEN ConnectionError ELSE NotFoundError
                 /\ Len(issued') = k
                 /\ es'.docs = Replay(es.docs, SubSeq(queue, 1, k - 1))
                 /\ queue' = <<>>]_vars

C9_Witness ==
    /\ use_transaction /\ ~disable_indexing
    /\ last.op = "commit" /\ last.failAt = 0
    /\ Len(last.queue) = 2
    /\ last.queue[1] = IndexOp("doc1", [title |-> "a", pipeline |-> NoPipeline])
    /\ last.queue[2] = DeleteOp("doc2", FALSE)
    /\ raised = NotFoundError
    /\ es.docs["doc1"] = "a"

\* C10: get, flush and refresh issue their one engine call in the step
\* that calls them, leave the queue and the engine as they are, and get
\* returns the title the engine stores under the id (NotFoundError when it
\* stores none), whatever the queue holds for that id.
C10_ReadsAreNeverDeferred ==
    [][last'.op \in {"get", "flush", "refresh"} =>
          /\ queue' = queue
          /\ es' = es
          /\ Len(issued') = 1
          /\ issued'[1].call.call =
                (CASE last'.op = "get" -> "get"
                   [] last'.op = "flush" -> "indices.flush"
                   [] last'.op = "refresh" -> "indices.refresh")
          /\ last'.op = "get" =>
                IF es.docs[last'.id] = Absent
                THEN raised' = NotFoundError
                ELSE raised' = NoError /\ result' = es.docs[last'.id]]_vars

C10_Witness ==
    /\ use_transaction /\ ~disable_indexing
    /\ last.op = "get" /\ last.id = "doc1"
    /\ result = "a"
    /\ Len(queue) = 2
    /\ queue[1] = IndexOp("doc1", [title |-> "b", pipeline |-> NoPipeline])
    /\ queue[2] = DeleteOp("doc1", FALSE)
    /\ Len(issued) = 1 /\ issued[1].call.call = "get"

\* The calls of one kind among those the last operation issued.
CallsNamed(calls, name) == {i \in 1..Len(calls) : calls[i].call.call = name}
CallNames(calls) == [i \in 1..Len(calls) |-> calls[i].call.call]

\* C6: ensure_mapping and ensure_all_mappings issue a put-mapping call
\* only if the mapping the index holds at that call is empty or recreate
\* is true; with recreate false and a mapping present they issue none and
\* the mapping stays as it is.
C6_MappingNeverSilentlyOverwritten ==
    [][last'.op \in {"ensure_mapping", "ensure_all_mappings"} =>
          /\ CallsNamed(issued', "indices.put_mapping") # {} =>
                (DOMAIN es.mappings = {} \/ last'.recreate)
          /\ (~last'.recreate /\ DOMAIN es.mappings # {}) =>
                /\ CallsNamed(issued', "indices.put_mapping") = {}
                /\ es'.mappings = es.mappings]_vars

C6_Witness ==
    /\ last.op = "ensure_all_mappings" /\ ~last.recreate
    /\ Len(last.registry) > 0
    /\ DOMAIN es.mappings # {}
    /\ CallNames(issued) = <<"indices.get_mapping">>
    /\ raised = NoError

\* C7: ensure_index with recreate false on an existing index issues no
\* create and no delete; on an absent index it issues one create and no
\* delete; with recreate true on an existing index it issues one delete
\* and then one create; the index exists afterwards in every case.
C7_EnsureIndexIdempotent ==
    [][last'.op = "ensure_index" =>
          /\ es'.exists
          /\ (es.exists /\ ~last'.recreate) =>
                (CallNames(issued') = <<"indices.exists">> /\ es' = es)
          /\ ~es.exists =>
                CallNames(issued') = <<"indices.exists", "indices.create">>
          /\ (es.exists /\ last'.recreate) =>
                CallNames(issued') = <<"indices.exists", "indices.delete", "indices.create">>]_vars

C7_Witness ==
    /\ last.op = "ensure_index" /\ ~last.recreate
    /\ CallNames(issued) = <<"indices.exists">>
    /\ es.exists
    /\ DOMAIN es.mappings # {}

\* The body of the put-mapping call the last operation issued.
PushedMapping ==
    issued[CHOOSE i \in CallsNamed(issued, "indices.put_mapping") : TRUE].call.body

Position(registry, name) == CHOOSE i \in 1..Len(registry) : registry[i] = name
Yields(registry, name) == \E i \in 1..Len(registry) : registry[i] = name

Sets(name, field) ==
    /\ ClassOf(name).provides
    /\ DOMAIN ClassOf(name).own # {}
    /\ field \in DOMAIN apply_extensions(ClassOf(name).own, ClassOf(name).exts)

====
